---- MODULE Spec2Model ----
(***************************************************************************)
(* Character-level tweet generator (notebooks/workshop-5/                  *)
(* tweet_generator.ipynb): the TweetDataset class (vocabulary, windows,    *)
(* encoding), the training loop fed by the DataLoader, and generate.       *)
(*                                                                         *)
(* Characters are code points (naturals); a string is a sequence of them.  *)
(* A tensor is the nested sequence of its entries.  A hidden state is its  *)
(* shape and the list of inputs the GRU consumed since it was zero: the    *)
(* GRU is a deterministic function of that list and of the parameters, so  *)
(* two hidden states are equal exactly when zeroed at the same point and   *)
(* fed the same inputs.  The parameters are the count of optimizer steps.  *)
(***************************************************************************)
EXTENDS Integers, Sequences, FiniteSets, TLC

\* ------------------------------------------------------------- bounds
\* A corpus has size <= MaxCorpusSize, each tweet counting 1 + its length.
MaxCorpusSize == 6
MaxSeqLen == 2
MaxBatch == 2
MaxEpochs == 2
MaxLoss == 2
MaxSeedLen == 2
MaxGenLen == 2
MaxCalls == 2

\* ---------------------------------------------------------- constants
SPACE == 32
N_LAYERS == 1
HIDDEN_SIZE == 128
PRINT_EVERY == 1

\* ' ', 'a', 'b'
Alphabet == {SPACE, 97, 98}

\* ------------------------------------------------------------ helpers
Min(a, b) == IF a <= b THEN a ELSE b

SetMin(S) == CHOOSE m \in S : \A o \in S : m <= o

SetMax(S) == CHOOSE m \in S : \A o \in S : o <= m

Range(f) == {f[k] : k \in DOMAIN f}

SeqsUpTo(S, n) == UNION {[1..k -> S] : k \in 0..n}

RECURSIVE CorporaUpTo(_)
CorporaUpTo(s) ==
    IF s <= 0 THEN {<<>>}
    ELSE {<<>>} \cup UNION {{<<t>> \o c : c \in CorporaUpTo(s - 1 - Len(t))} :
                            t \in SeqsUpTo(Alphabet, s - 1)}

Corpora == CorporaUpTo(MaxCorpusSize)

\* One corpus per vocabulary: a single tweet listing the characters.
RECURSIVE Listing(_)
Listing(S) == IF S = {} THEN <<>>
              ELSE LET m == SetMax(S) IN <<m>> \o Listing(S \ {m})

VocabCorpora == {<<Listing(S)>> : S \in SUBSET Alphabet}

\* ------------------------------------------------- TweetDataset (pure)
\* list.sort() on a list of characters: ascending code points.
RECURSIVE SortedSeq(_)
SortedSeq(S) == IF S = {} THEN <<>>
                ELSE LET m == SetMin(S) IN <<m>> \o SortedSeq(S \ {m})

\* Variant: the characters listed in descending order.
GetUniqueCharsDescending(d) == Listing(UNION {Range(d[k]) : k \in DOMAIN d})

\* _get_unique_chars: the set of the tweets' characters, as a sorted list.
GetUniqueChars(d) == SortedSeq(UNION {Range(d[k]) : k \in DOMAIN d})

\* dict(enumerate(chars))
Int2Char(chs) == [i \in 0..(Len(chs) - 1) |-> chs[i + 1]]

\* { c: i for i, c in int2char.items() }: a later i overwrites an earlier one.
Char2Int(i2c) == [c \in Range(i2c) |-> SetMax({i \in DOMAIN i2c : i2c[i] = c})]

\* Variant: characters missing from char2int are skipped silently.
EncodeSequenceSkipping(c2i, seq) ==
    LET known == SelectSeq(seq, LAMBDA c : c \in DOMAIN c2i)
    IN  [ok |-> TRUE, v |-> [k \in 1..Len(known) |-> c2i[known[k]]]]

\* _encode_sequence: [char2int[c] for c in seq]; a missing key raises KeyError.
EncodeSequence(c2i, seq) ==
    IF \A k \in 1..Len(seq) : seq[k] \in DOMAIN c2i
    THEN [ok |-> TRUE, v |-> [k \in 1..Len(seq) |-> c2i[seq[k]]]]
    ELSE [ok |-> FALSE, v |-> <<>>]

\* _one_hot_sequence: vec = [0] * vocab_size; vec[s] = 1.
OneHotSequence(seq, vsize) ==
    [k \in 1..Len(seq) |-> [j \in 1..vsize |-> IF j = seq[k] + 1 THEN 1 ELSE 0]]

\* Variant: no padding.
PadNone(seq, width) == seq

\* seq += ' ' * (seq_len+1 - len(seq)) when len(seq) < seq_len+1
Pad(seq, width) ==
    IF Len(seq) < width
    THEN seq \o [k \in 1..(width - Len(seq)) |-> SPACE]
    ELSE seq

\* Variant: a stride of seq_len, so consecutive slices overlap.
TweetSlicesOverlapping(tweet, L) ==
    LET n == Len(tweet)
        cnt == (n + L - 1) \div L
    IN  [j \in 1..cnt |->
            LET i == (j - 1) * L
            IN  Pad(SubSeq(tweet, i + 1, Min(i + L + 1, n)), L + 1)]

\* The inner loop of _create_sequences: for i in range(0, len(tweet), seq_len+1),
\* the slice tweet[i:i+seq_len+1], padded.
TweetSlices(tweet, L) ==
    LET n == Len(tweet)
        cnt == (n + L) \div (L + 1)
    IN  [j \in 1..cnt |->
            LET i == (j - 1) * (L + 1)
            IN  Pad(SubSeq(tweet, i + 1, Min(i + L + 1, n)), L + 1)]

\* The second loop of _create_sequences: zip(seq[:-1], seq[1:]).
SplitPairs(ss) ==
    [k \in 1..Len(ss) |->
        <<SubSeq(ss[k], 1, Len(ss[k]) - 1), SubSeq(ss[k], 2, Len(ss[k]))>>]

\* The first loop of _create_sequences over the first m tweets.
RECURSIVE AllSlices(_, _, _)
AllSlices(d, L, m) ==
    IF m = 0 THEN <<>> ELSE AllSlices(d, L, m - 1) \o TweetSlices(d[m], L)

NoItem == [ok |-> FALSE, err |-> "", inpt |-> <<>>, target |-> <<>>]

\* __getitem__ on a built dataset.
GetItemOf(c2i, vsize, seqsOf, idx) ==
    LET i == EncodeSequence(c2i, seqsOf[idx + 1][1])
        t == EncodeSequence(c2i, seqsOf[idx + 1][2])
    IN  IF i.ok /\ t.ok
        THEN [ok |-> TRUE, err |-> "",
              inpt |-> OneHotSequence(i.v, vsize), target |-> t.v]
        ELSE [ok |-> FALSE, err |-> "KeyError", inpt |-> <<>>, target |-> <<>>]

\* ------------------------------------------------------------- GRU
NoTensor == [shape |-> <<>>, hist |-> <<>>]

\* Variant: one batch row too many.
init_hidden_wrong_batch(nl, batch, hs) == [shape |-> <<nl, batch + 1, hs>>, hist |-> <<>>]

\* GRU.init_hidden: torch.zeros(n_layers, batch_size, hidden_size)
init_hidden(nl, batch, hs) == [shape |-> <<nl, batch, hs>>, hist |-> <<>>]

\* GRU.forward: x is [batch_size, seq_len, input_size], hidden is
\* [n_layers, batch_size, hidden_size]; the batch sizes must agree.
ForwardOk(x, h) == Len(h.shape) = 3 /\ h.shape[2] = Len(x)

Forward(x, h) == [shape |-> h.shape, hist |-> Append(h.hist, x)]

\* -------------------------------------------------------------- state
VARIABLES
    \* TweetDataset
    data, seq_len, dpc, chars, vocab_size, int2char, char2int,
    seqs, tw, sequences, item,
    \* hyperparameters, the model's parameters, train's locals and output
    BATCH_SIZE, N_EPOCHS, params, tpc, epoch, bi, batch, t_hidden,
    loss_avg, t_log, printed, terr,
    \* generate's arguments, locals and result
    gpc, g_seed, g_length, start, hidden, si, inpt, res, gi, calls,
    gerr, ret, ncalls

dvars == <<data, seq_len, dpc, chars, vocab_size, int2char, char2int,
           seqs, tw, sequences>>

hvars == <<BATCH_SIZE, N_EPOCHS>>

tvars == <<tpc, epoch, bi, batch, t_hidden, loss_avg, t_log, printed, terr>>

gvars == <<gpc, g_seed, g_length, start, hidden, si, inpt, res, gi, calls,
           gerr, ret, ncalls>>

vars == <<dvars, item, hvars, params, tvars, gvars>>

NoBatch == [x |-> <<>>, y |-> <<>>]

NoResult == [returned |-> FALSE, v |-> <<>>]

\* The int 0 that train assigns to loss_avg; adding a loss makes it a tensor.
IntZero == [tensor |-> FALSE, num |-> 0, den |-> 1]

TrainIdle ==
    /\ tpc = "idle" /\ epoch = 0 /\ bi = 0 /\ batch = NoBatch
    /\ t_hidden = NoTensor /\ loss_avg = IntZero /\ t_log = <<>>
    /\ printed = <<>> /\ terr = ""

GenIdle ==
    /\ gpc = "idle" /\ g_seed = <<>> /\ g_length = 0 /\ start = <<>>
    /\ hidden = NoTensor /\ si = 0 /\ inpt = <<>> /\ res = <<>> /\ gi = 0
    /\ calls = <<>> /\ gerr = "" /\ ret = NoResult /\ ncalls = 0

\* The dataset object once TweetDataset.__init__ has returned.
Built(d, L) ==
    /\ data = d
    /\ seq_len = L
    /\ dpc = "built"
    /\ chars = GetUniqueChars(d)
    /\ vocab_size = Len(GetUniqueChars(d))
    /\ int2char = Int2Char(GetUniqueChars(d))
    /\ char2int = Char2Int(Int2Char(GetUniqueChars(d)))
    /\ seqs = AllSlices(d, L, Len(d))
    /\ tw = Len(d) + 1
    /\ sequences = SplitPairs(AllSlices(d, L, Len(d)))

\* ------------------------------------------------- TweetDataset.__init__
\* self.data = pd.read_csv(path) has run; nothing else has.
InitData ==
    /\ data \in Corpora
    /\ seq_len \in 1..MaxSeqLen
    /\ dpc = "new"
    /\ chars = <<>> /\ vocab_size = 0
    /\ int2char = Int2Char(<<>>) /\ char2int = Char2Int(Int2Char(<<>>))
    /\ seqs = <<>> /\ tw = 0 /\ sequences = <<>>
    /\ item = NoItem
    /\ BATCH_SIZE = 1 /\ N_EPOCHS = 1 /\ params = 0
    /\ TrainIdle /\ GenIdle

\* chars, vocab_size, int2char, char2int
BuildVocabulary ==
    /\ dpc = "new"
    /\ chars' = GetUniqueChars(data)
    /\ vocab_size' = Len(GetUniqueChars(data))
    /\ int2char' = Int2Char(GetUniqueChars(data))
    /\ char2int' = Char2Int(Int2Char(GetUniqueChars(data)))
    /\ seqs' = <<>>
    /\ tw' = 1
    /\ dpc' = "windowing"
    /\ UNCHANGED <<data, seq_len, sequences, item, hvars, params, tvars, gvars>>

\* One iteration of `for tweet in self.data['tweet'].values`.
CreateSequencesTweet ==
    /\ dpc = "windowing"
    /\ tw <= Len(data)
    /\ seqs' = seqs \o TweetSlices(data[tw], seq_len)
    /\ tw' = tw + 1
    /\ UNCHANGED <<data, seq_len, dpc, chars, vocab_size, int2char, char2int,
                   sequences, item, hvars, params, tvars, gvars>>

\* The split into inputs and targets, and the return into self.sequences.
CreateSequencesReturn ==
    /\ dpc = "windowing"
    /\ tw > Len(data)
    /\ sequences' = SplitPairs(seqs)
    /\ dpc' = "built"
    /\ UNCHANGED <<data, seq_len, chars, vocab_size, int2char, char2int,
                   seqs, tw, item, hvars, params, tvars, gvars>>

\* dataset[idx] for 0 <= idx < len(dataset)
GetItem ==
    /\ dpc = "built"
    /\ \E idx \in 0..(Len(sequences) - 1) :
          item' = GetItemOf(char2int, vocab_size, sequences, idx)
    /\ UNCHANGED <<dvars, hvars, params, tvars, gvars>>

NextData ==
    \/ BuildVocabulary
    \/ CreateSequencesTweet
    \/ CreateSequencesReturn
    \/ GetItem

SpecData == InitData /\ [][NextData]_vars

\* ------------------------------------------------------------- train
\* DataLoader(dataset, batch_size=BATCH_SIZE, drop_last=True), no shuffle:
\* batch i (from 0) holds windows i*B .. i*B+B-1 and exists only if full.
BatchAvailable(m, b, i) == (i + 1) * b <= m

BatchIndices(b, i) == [k \in 1..b |-> i * b + k - 1]

\* A built dataset, the hyperparameters set, a fresh model; train not yet called.
InitTrain ==
    /\ \E d \in Corpora, L \in 1..MaxSeqLen : Built(d, L)
    /\ item = NoItem
    /\ BATCH_SIZE \in 1..MaxBatch
    /\ N_EPOCHS \in 1..MaxEpochs
    /\ params = 0
    /\ TrainIdle /\ GenIdle

\* for epoch in range(1, N_EPOCHS + 1): loss_avg = 0
TrainEpoch ==
    /\ tpc \in {"idle", "next_epoch"}
    /\ IF epoch < N_EPOCHS
       THEN /\ epoch' = epoch + 1
            /\ loss_avg' = IntZero
            /\ bi' = 0
            /\ tpc' = "fetch"
       ELSE /\ tpc' = "done"
            /\ UNCHANGED <<epoch, loss_avg, bi>>
    /\ UNCHANGED <<dvars, item, hvars, params, batch, t_hidden, t_log,
                   printed, terr, gvars>>

\* for i, batch in enumerate(data): the DataLoader collates dataset[idx]
\* for the indices of the next batch, or stops.
TrainFetch ==
    /\ tpc = "fetch"
    /\ IF BatchAvailable(Len(sequences), BATCH_SIZE, bi)
       THEN LET idxs == BatchIndices(BATCH_SIZE, bi)
                items == [k \in 1..BATCH_SIZE |->
                            GetItemOf(char2int, vocab_size, sequences, idxs[k])]
            IN  IF \A k \in 1..BATCH_SIZE : items[k].ok
                THEN /\ batch' = [x |-> [k \in 1..BATCH_SIZE |-> items[k].inpt],
                                  y |-> [k \in 1..BATCH_SIZE |-> items[k].target]]
                     /\ tpc' = "init_hidden"
                     /\ terr' = terr
                ELSE /\ tpc' = "error"
                     /\ terr' = "KeyError"
                     /\ batch' = batch
       ELSE /\ tpc' = "epoch_end"
            /\ UNCHANGED <<batch, terr>>
    /\ UNCHANGED <<dvars, item, hvars, params, epoch, bi, t_hidden, loss_avg,
                   t_log, printed, gvars>>

\* hidden = model.init_hidden(BATCH_SIZE); optimizer.zero_grad()
TrainInitHidden ==
    /\ tpc = "init_hidden"
    /\ t_hidden' = init_hidden(N_LAYERS, BATCH_SIZE, HIDDEN_SIZE)
    /\ tpc' = "forward"
    /\ UNCHANGED <<dvars, item, hvars, params, epoch, bi, batch, loss_avg,
                   t_log, printed, terr, gvars>>

\* output, hidden = model(x, hidden); loss = loss_fn(...); loss_avg += loss
TrainForward ==
    /\ tpc = "forward"
    /\ IF ForwardOk(batch.x, t_hidden)
       THEN \E loss \in 1..MaxLoss :
            /\ t_log' = Append(t_log, [epoch |-> epoch, x |-> batch.x,
                                       h |-> t_hidden, loss |-> loss])
            /\ t_hidden' = Forward(batch.x, t_hidden)
            /\ loss_avg' = [tensor |-> TRUE, num |-> loss_avg.num + loss,
                            den |-> loss_avg.den]
            /\ tpc' = "backward"
            /\ terr' = terr
       ELSE /\ tpc' = "error"
            /\ terr' = "RuntimeError"
            /\ UNCHANGED <<t_log, t_hidden, loss_avg>>
    /\ UNCHANGED <<dvars, item, hvars, params, epoch, bi, batch, printed, gvars>>

\* loss.backward(); optimizer.step(); on to the next batch
TrainOptimizerStep ==
    /\ tpc = "backward"
    /\ params' = params + 1
    /\ bi' = bi + 1
    /\ tpc' = "fetch"
    /\ UNCHANGED <<dvars, item, hvars, epoch, batch, t_hidden, loss_avg,
                   t_log, printed, terr, gvars>>

\* loss_avg = loss_avg.item() / BATCH_SIZE; print when epoch % PRINT_EVERY == 0.
\* An int has no .item(): with no batch in the epoch this raises AttributeError.
TrainEpochEnd ==
    /\ tpc = "epoch_end"
    /\ IF loss_avg.tensor
       THEN /\ loss_avg' = [tensor |-> FALSE, num |-> loss_avg.num,
                            den |-> loss_avg.den * BATCH_SIZE]
            /\ printed' = IF epoch % PRINT_EVERY = 0
                          THEN Append(printed, [epoch |-> epoch,
                                                num |-> loss_avg.num,
                                                den |-> loss_avg.den * BATCH_SIZE])
                          ELSE printed
            /\ tpc' = "next_epoch"
            /\ terr' = terr
       ELSE /\ tpc' = "error"
            /\ terr' = "AttributeError"
            /\ UNCHANGED <<loss_avg, printed>>
    /\ UNCHANGED <<dvars, item, hvars, params, epoch, bi, batch, t_hidden,
                   t_log, gvars>>

NextTrain ==
    \/ TrainEpoch
    \/ TrainFetch
    \/ TrainInitHidden
    \/ TrainForward
    \/ TrainOptimizerStep
    \/ TrainEpochEnd

SpecTrain == InitTrain /\ [][NextTrain]_vars

\* ---------------------------------------------------------- generate
\* Variant: start[0].
LastOfFirst(t) == t[1]

\* start[-1]
LastOf(t) == t[Len(t)]

\* Variant: range(length + 1).
GenLoopDoneLate(i, length) == i > length

\* for i in range(length): the loop is over once i reaches length
GenLoopDone(i, length) == i >= length

\* s.view(1, 1, -1): a batch of one sequence of one vector
View11(vec) == <<<<vec>>>>

\* A built dataset and a model; generate not yet called.
InitGen ==
    /\ \E d \in VocabCorpora, L \in 1..MaxSeqLen : Built(d, L)
    /\ item = NoItem
    /\ BATCH_SIZE = 1 /\ N_EPOCHS = 1
    /\ params = 0
    /\ TrainIdle /\ GenIdle

\* generate(model, dataset, start, length) is called: a new frame, then
\* start = torch.Tensor(one_hot(encode(start))), or KeyError.
GenCall ==
    /\ gpc \in {"idle", "done", "error"}
    /\ ncalls < MaxCalls
    /\ \E seed \in SeqsUpTo(Alphabet, MaxSeedLen), length \in 0..MaxGenLen :
        /\ g_seed' = seed
        /\ g_length' = length
        /\ LET e == EncodeSequence(char2int, seed)
           IN  IF e.ok
               THEN /\ start' = OneHotSequence(e.v, vocab_size)
                    /\ gpc' = "init_hidden"
                    /\ gerr' = ""
               ELSE /\ start' = <<>>
                    /\ gpc' = "error"
                    /\ gerr' = "KeyError"
    /\ ncalls' = ncalls + 1
    /\ hidden' = NoTensor /\ si' = 0 /\ inpt' = <<>> /\ res' = <<>>
    /\ gi' = 0 /\ calls' = <<>> /\ ret' = NoResult
    /\ UNCHANGED <<dvars, item, hvars, params, tvars>>

\* hidden = model.init_hidden(1)
GenInitHidden ==
    /\ gpc = "init_hidden"
    /\ hidden' = init_hidden(N_LAYERS, 1, HIDDEN_SIZE)
    /\ si' = 1
    /\ gpc' = "prime"
    /\ UNCHANGED <<dvars, item, hvars, params, tvars, g_seed, g_length, start,
                   inpt, res, gi, calls, gerr, ret, ncalls>>

\* for s in start: _, hidden = model(s.view(1, 1, -1), hidden)
GenPrime ==
    /\ gpc = "prime"
    /\ si <= Len(start)
    /\ IF ForwardOk(View11(start[si]), hidden)
       THEN /\ calls' = Append(calls, [x |-> View11(start[si]), h |-> hidden])
            /\ hidden' = Forward(View11(start[si]), hidden)
            /\ si' = si + 1
            /\ UNCHANGED <<gpc, gerr>>
       ELSE /\ gpc' = "error"
            /\ gerr' = "RuntimeError"
            /\ UNCHANGED <<calls, hidden, si>>
    /\ UNCHANGED <<dvars, item, hvars, params, tvars, g_seed, g_length, start,
                   inpt, res, gi, ret, ncalls>>

\* inpt = start[-1].view(1, 1, -1); res = ''
GenLastSeed ==
    /\ gpc = "prime"
    /\ si > Len(start)
    /\ IF Len(start) = 0
       THEN /\ gpc' = "error"
            /\ gerr' = "IndexError"
            /\ UNCHANGED <<inpt, res, gi>>
       ELSE /\ inpt' = View11(LastOf(start))
            /\ res' = <<>>
            /\ gi' = 0
            /\ gpc' = "sample"
            /\ gerr' = gerr
    /\ UNCHANGED <<dvars, item, hvars, params, tvars, g_seed, g_length, start,
                   hidden, si, calls, ret, ncalls>>

\* One iteration of the sampling loop: a model step, a draw from the softmax
\* (every index has positive probability), the character appended and
\* re-encoded as the next input.
GenSample ==
    /\ gpc = "sample"
    /\ ~GenLoopDone(gi, g_length)
    /\ IF ForwardOk(inpt, hidden)
       THEN \E top \in 0..(vocab_size - 1) :
            LET char == int2char[top]
                e == EncodeSequence(char2int, <<char>>)
            IN  /\ calls' = Append(calls, [x |-> inpt, h |-> hidden])
                /\ hidden' = Forward(inpt, hidden)
                /\ res' = Append(res, char)
                /\ IF e.ok
                   THEN /\ inpt' = View11(OneHotSequence(e.v, vocab_size)[1])
                        /\ gi' = gi + 1
                        /\ UNCHANGED <<gpc, gerr>>
                   ELSE /\ gpc' = "error"
                        /\ gerr' = "KeyError"
                        /\ UNCHANGED <<inpt, gi>>
       ELSE /\ gpc' = "error"
            /\ gerr' = "RuntimeError"
            /\ UNCHANGED <<calls, hidden, res, inpt, gi>>
    /\ UNCHANGED <<dvars, item, hvars, params, tvars, g_seed, g_length, start,
                   si, ret, ncalls>>

\* return res
GenReturn ==
    /\ gpc = "sample"
    /\ GenLoopDone(gi, g_length)
    /\ ret' = [returned |-> TRUE, v |-> res]
    /\ gpc' = "done"
    /\ UNCHANGED <<dvars, item, hvars, params, tvars, g_seed, g_length, start,
                   hidden, si, inpt, res, gi, calls, gerr, ncalls>>

NextGen ==
    \/ GenCall
    \/ GenInitHidden
    \/ GenPrime
    \/ GenLastSeed
    \/ GenSample
    \/ GenReturn

SpecGen == InitGen /\ [][NextGen]_vars

\* ============================================================ claims
\* The slice number j (from 0) of width L+1 of tweet t, spaces past its end.
SliceAt(t, j, L) ==
    [p \in 1..(L + 1) |-> IF j * (L + 1) + p <= Len(t) THEN t[j * (L + 1) + p]
                          ELSE SPACE]

\* The one-hot vector of character c in the sorted vocabulary.
OneHotChar(c) == [j \in 1..vocab_size |-> IF chars[j] = c THEN 1 ELSE 0]

DecodeSequence(i2c, idxs) == [k \in 1..Len(idxs) |-> i2c[idxs[k]]]

CorpusChars == UNION {Range(data[k]) : k \in DOMAIN data}

RECURSIVE SumLoss(_, _)
SumLoss(log, e) ==
    IF log = <<>> THEN 0
    ELSE (IF log[1].epoch = e THEN log[1].loss ELSE 0) + SumLoss(Tail(log), e)

\* C1: every window pair of the built dataset is (s[0..L), s[1..L+1)) for s
\* the stride-(L+1) slice of one tweet, space-padded to L+1 characters; so
\* input and target have length L and target[i] = input[i+1].
C1_WindowPairs ==
    dpc = "built" =>
        \A k \in 1..Len(sequences) :
            LET inp == sequences[k][1]
                tgt == sequences[k][2]
            IN  /\ Len(inp) = seq_len
                /\ Len(tgt) = seq_len
                /\ \A i \in 1..(seq_len - 1) : tgt[i] = inp[i + 1]
                /\ \E t \in 1..Len(data) : \E j \in 0..Len(data[t]) :
                      /\ j * (seq_len + 1) < Len(data[t])
                      /\ inp = SubSeq(SliceAt(data[t], j, seq_len), 1, seq_len)
                      /\ tgt = SubSeq(SliceAt(data[t], j, seq_len), 2, seq_len + 1)

\* A tweet without spaces cut into two windows, the second one padded.
C1_Witness ==
    /\ dpc = "built"
    /\ Len(data) = 1
    /\ SPACE \notin Range(data[1])
    /\ Len(sequences) = 2
    /\ sequences[2][2][seq_len] = SPACE

\* The windowing step of a tweet of length n, minlen <= n < L+1, appends
\* exactly one window: the tweet right-padded with spaces to L+1.
ShortTweetStep(minlen) ==
    (/\ dpc = "windowing"
     /\ tw <= Len(data)
     /\ tw' = tw + 1
     /\ Len(data[tw]) >= minlen
     /\ Len(data[tw]) < seq_len + 1)
    => /\ Len(seqs') = Len(seqs) + 1
       /\ SubSeq(seqs', 1, Len(seqs)) = seqs
       /\ seqs'[Len(seqs')] = SliceAt(data[tw], 0, seq_len)

\* C2 (as stated): every tweet of length n, 0 <= n <= L, yields exactly one
\* window, the tweet padded to L+1.
C2_ShortTweetOneWindow == [][ShortTweetStep(0)]_vars

\* C2 (amended): every tweet of length n, 1 <= n <= L, yields exactly one
\* window, the tweet padded to L+1; an empty tweet yields none.
C2_NonEmptyShortTweetOneWindow ==
    [][/\ ShortTweetStep(1)
       /\ (dpc = "windowing" /\ tw <= Len(data) /\ tw' = tw + 1
           /\ Len(data[tw]) = 0) => seqs' = seqs]_vars

\* A short, non-empty tweet has just been windowed.
C2_Witness ==
    /\ dpc = "windowing"
    /\ tw = 2
    /\ Len(data[1]) >= 1
    /\ Len(data[1]) < seq_len
    /\ Len(seqs) = 1

\* C3: char2int and int2char are mutually inverse bijections between the
\* corpus's distinct characters and 0..vocab_size-1, a character's index being
\* its rank among them; decoding the encoding of a vocabulary string gives it
\* back.
C3_VocabularyBijection ==
    dpc # "new" =>
        /\ vocab_size = Cardinality(CorpusChars)
        /\ DOMAIN int2char = 0..(vocab_size - 1)
        /\ DOMAIN char2int = CorpusChars
        /\ \A c \in CorpusChars :
              /\ char2int[c] = Cardinality({o \in CorpusChars : o < c})
              /\ int2char[char2int[c]] = c
        /\ \A i \in 0..(vocab_size - 1) : char2int[int2char[i]] = i
        /\ \A str \in SeqsUpTo(CorpusChars, MaxSeedLen) :
              /\ EncodeSequence(char2int, str).ok
              /\ DecodeSequence(int2char, EncodeSequence(char2int, str).v) = str

\* Three distinct characters, first met out of order and repeated.
C3_Witness ==
    /\ dpc = "built"
    /\ vocab_size = 3
    /\ Len(data) = 2
    /\ Len(data[1]) >= 2
    /\ data[1][1] > data[1][2]
    /\ Range(data[2]) \subseteq Range(data[1])
    /\ data[2] # <<>>

\* C9: dataset[idx] never fails with an unknown-character lookup.
C9_GetItemSucceeds == item.err # "KeyError"

ValidSeed ==
    /\ g_seed # <<>>
    /\ \A k \in 1..Len(g_seed) : g_seed[k] \in CorpusChars

\* What is left of the call: strictly decreasing along every step of it.
GenVariant ==
    CASE gpc = "init_hidden" -> Len(start) + g_length + 4
      [] gpc = "prime" -> (Len(start) + 1 - si) + g_length + 3
      [] gpc = "sample" -> (g_length - gi) + 1
      [] OTHER -> 0

GenLength ==
    (gpc # "idle" /\ ValidSeed) =>
        /\ gpc # "error"
        /\ gpc = "done" =>
              /\ ret.returned
              /\ Len(ret.v) = g_length
              /\ \A k \in 1..Len(ret.v) : ret.v[k] \in CorpusChars
              /\ Len(calls) >= Len(g_seed)
              /\ \A k \in 1..Len(g_seed) : calls[k].x = View11(OneHotChar(g_seed[k]))
              /\ g_length = 0 => (ret.v = <<>> /\ Len(calls) = Len(g_seed))

GenProgress ==
    (gpc \in {"init_hidden", "prime", "sample"}) =>
        (GenVariant' < GenVariant /\ GenVariant' >= 0)

\* C4: with a non-empty seed of vocabulary characters, generate terminates
\* (every step of a call strictly decreases a natural number) and returns
\* exactly N vocabulary characters, the seed having been replayed first; for
\* N = 0 the empty string.
C4_GenerateLength ==
    /\ []GenLength
    /\ [][GenProgress]_vars

\* A call with a two-character seed has returned two characters.
C4_Witness ==
    /\ gpc = "done"
    /\ Len(g_seed) = 2
    /\ g_length = 2
    /\ Len(ret.v) = 2

\* A call with N = 0 has returned after priming.
C4_WitnessZero == gpc = "done" /\ g_length = 0 /\ Len(calls) = 2

\* C5: a seed with a character outside the vocabulary makes generate fail
\* with KeyError before any model step or sample, returning nothing.
C5_UnknownCharacter ==
    (gpc # "idle" /\ \E k \in 1..Len(g_seed) : g_seed[k] \notin CorpusChars) =>
        /\ gpc = "error"
        /\ gerr = "KeyError"
        /\ calls = <<>>
        /\ hidden = NoTensor
        /\ res = <<>>
        /\ ~ret.returned

\* The seed's first character is known, its second is not.
C5_Witness ==
    /\ gpc = "error"
    /\ gerr = "KeyError"
    /\ Len(g_seed) = 2
    /\ g_seed[1] \in CorpusChars
    /\ g_seed[2] \notin CorpusChars

\* C6: each generate call starts from the zero hidden state of batch size 1
\* and every hidden state it passes to the model holds only this call's
\* inputs; generate changes neither the parameters nor the vocabulary.
C6_GenerateHiddenAndFrame ==
    /\ [](/\ (gpc = "prime" /\ si = 1) =>
                hidden = [shape |-> <<N_LAYERS, 1, HIDDEN_SIZE>>, hist |-> <<>>]
          /\ \A k \in 1..Len(calls) :
                /\ calls[k].h.shape = <<N_LAYERS, 1, HIDDEN_SIZE>>
                /\ calls[k].h.hist = [j \in 1..(k - 1) |-> calls[j].x])
    /\ [][/\ params' = params
          /\ chars' = chars
          /\ vocab_size' = vocab_size
          /\ int2char' = int2char
          /\ char2int' = char2int]_vars

\* A second call in the middle of its sampling.
C6_Witness ==
    /\ ncalls = 2
    /\ gpc = "sample"
    /\ Len(calls) = 3

\* C7: training ends having made E * floor(M / B) parameter updates, one per
\* batch: in every epoch the floor(M / B) full batches in dataset order, each
\* run once from the zero hidden state of shape (n_layers, B, hidden_size).
C7_TrainBatches ==
    tpc \in {"done", "error"} =>
        LET nb == Len(sequences) \div BATCH_SIZE
        IN  /\ params = N_EPOCHS * nb
            /\ Len(t_log) = N_EPOCHS * nb
            /\ \A k \in 1..Len(t_log) :
                  /\ t_log[k].epoch = ((k - 1) \div nb) + 1
                  /\ t_log[k].h = [shape |-> <<N_LAYERS, BATCH_SIZE, HIDDEN_SIZE>>,
                                   hist |-> <<>>]
                  /\ t_log[k].x =
                        [j \in 1..BATCH_SIZE |->
                            LET w == sequences[((k - 1) % nb) * BATCH_SIZE + j][1]
                            IN  [p \in 1..Len(w) |-> OneHotChar(w[p])]]

C10_GenerateInputs ==
    (gpc = "done" /\ Len(g_seed) >= 1 /\ g_length >= 1) =>
        LET n == Len(g_seed)
            N == g_length
        IN  /\ Len(calls) = n + N
            /\ \A k \in 1..n : calls[k].x = View11(OneHotChar(g_seed[k]))
            /\ calls[n + 1].x = View11(OneHotChar(g_seed[n]))
            /\ \A k \in 2..N : calls[n + k].x = View11(OneHotChar(ret.v[k - 1]))
            /\ calls[1].h.hist = <<>>
            /\ \A k \in 2..(n + N) :
                  calls[k].h.hist = Append(calls[k - 1].h.hist, calls[k - 1].x)

\* Two distinct seed characters, two samples, the first not the last seed
\* character.
C10_Witness ==
    /\ gpc = "done"
    /\ Len(g_seed) = 2
    /\ g_length = 2
    /\ g_seed[1] # g_seed[2]
    /\ Len(ret.v) = 2
    /\ ret.v[1] # g_seed[2]

====
